---------------------------- MODULE Spec2Model ----------------------------
(***************************************************************************)
(* Model of battery-module.c, the Acer Switch 11 battery driver.           *)
(*                                                                         *)
(*   Spec         the register transport, read_byte_register, at the       *)
(*                granularity of one i2c_transfer call, run by two host    *)
(*                contexts over one shared bus.                            *)
(*   SpecQuery    battery_get_property and battery_rate as whole calls     *)
(*                over sampled register contents and bus fault schedules.  *)
(*   SpecStatus   battery_get_property(STATUS) over all 256 STATUS bytes.  *)
(*   SpecCapacity battery_get_property(CAPACITY, CAPACITY_LEVEL,           *)
(*                ENERGY_NOW) over all 65536 ENERGY words.                 *)
(*                                                                         *)
(* C integers: every unsigned int of the driver that can reach 2^31 is     *)
(* kept in 16-bit limbs (least significant first), because the model       *)
(* checker's integers are 32-bit signed.  The others are plain integers;   *)
(* the comment at each says why the value stays below 2^31.                *)
(***************************************************************************)
EXTENDS Integers, Sequences, FiniteSets, TLC

VARIABLES
    hostSerial,  \* TRUE: the host issues one query at a time
    loc,         \* loc[c]: the locals of context c's read_byte_register call
    bus,         \* the most recent transfers on the bus, oldest first
    qpc,         \* "ready" before the call of the query model, "returned" after
    called,      \* which entry point ran: "none", "get_property", "battery_rate"
    property,    \* the identifier handed to battery_get_property
    dev,         \* dev[r]: the byte the device holds in register r
    faults,      \* the bus schedule of a query: transfer k succeeds iff
                 \* faults[(k % Len(faults)) + 1]
    hiFirst,     \* the order the compiler gave the two reads of a word
    retval,      \* battery_get_property's return value
    valKind,     \* which member of *val was stored: "none", "int", "str"
    intval,      \* val->intval
    strval,      \* val->strval
    rateval      \* battery_rate's return value

busVars == <<hostSerial, loc, bus>>
qryVars == <<qpc, called, property, dev, faults, hiFirst, retval, valKind,
             intval, strval, rateval>>
vars == <<hostSerial, loc, bus, qpc, called, property, dev, faults, hiFirst,
          retval, valKind, intval, strval, rateval>>

---------------------------------------------------------------------------
(* Program constants.                                                      *)

BATTERY_I2C_ADDRESS == 112
BATTERY_REGISTER_STATUS == 193
BATTERY_REGISTER_RATE == 208
BATTERY_REGISTER_ENERGY == 194
BATTERY_REGISTER_VOLTAGE == 198

\* <linux/i2c.h>: the read flag of struct i2c_msg.
I2C_M_RD == 1
\* <linux/errno.h>
EINVAL == 22
EIO == 5

\* <linux/power_supply.h>
POWER_SUPPLY_STATUS_UNKNOWN == 0
POWER_SUPPLY_STATUS_CHARGING == 1
POWER_SUPPLY_STATUS_DISCHARGING == 2
POWER_SUPPLY_STATUS_FULL == 4
POWER_SUPPLY_CAPACITY_LEVEL_CRITICAL == 1
POWER_SUPPLY_CAPACITY_LEVEL_LOW == 2
POWER_SUPPLY_CAPACITY_LEVEL_NORMAL == 3
POWER_SUPPLY_CAPACITY_LEVEL_FULL == 5
POWER_SUPPLY_TECHNOLOGY_LION == 2

\* const int max_tries = 5;
max_tries == 5

\* The advertised list, in the order of the array.
battery_properties ==
    <<"STATUS", "CAPACITY", "TIME_TO_EMPTY_NOW", "TIME_TO_FULL_NOW",
      "VOLTAGE_NOW", "CURRENT_NOW", "PRESENT", "ENERGY_FULL", "ENERGY_NOW",
      "TECHNOLOGY", "MODEL_NAME", "MANUFACTURER">>

\* Every register address the driver hands to read_byte_register.
Registers ==
    { BATTERY_REGISTER_STATUS,
      BATTERY_REGISTER_ENERGY, BATTERY_REGISTER_ENERGY + 1,
      BATTERY_REGISTER_VOLTAGE, BATTERY_REGISTER_VOLTAGE + 1,
      BATTERY_REGISTER_RATE, BATTERY_REGISTER_RATE + 1 }

---------------------------------------------------------------------------
(* Bounds of the model.                                                    *)

\* How many of the latest transfers the bus observer keeps.
BusWindow == 2

\* The host contexts that may be inside the driver at once.
Callers == {1, 2}

\* What i2c_transfer may return for one message: 1 (done) or a negative errno.
XferResults == {1, -EIO}

\* Bytes the device may put on the wire in the transport model.
WireBytes == {0, 100}

\* The registers the contexts of the transport model ask for.
BusRegisters == {BATTERY_REGISTER_STATUS, BATTERY_REGISTER_ENERGY}

---------------------------------------------------------------------------
(* read_byte_register, one i2c_transfer at a time.                         *)

\* The locals of a context that is not inside read_byte_register.
IdleLocals ==
    [ pc |-> "idle", reg |-> 0, bufo |-> <<>>,
      msg |-> [addr |-> 0, len |-> 0, flags |-> 0, buf |-> "none"],
      tries |-> 0, ret |-> 0, value |-> 0, result |-> 0, log |-> <<>> ]

\* Lines 103-115: the locals on entry to the first loop.  ret and value are
\* uninitialised in C and are written before they are read; they start at 0
\* here.  log is the observer's record of this call's transfers: the
\* direction, the outcome and the byte a successful read put on the wire.
rbr_enter(r) ==
    [ pc |-> "write", reg |-> r,
      bufo |-> <<2, 128, r, 0, 0, 0, 0, 0>>,
      msg |-> [addr |-> BATTERY_I2C_ADDRESS, len |-> 5, flags |-> 0,
               buf |-> "bufo"],
      tries |-> 0, ret |-> 0, value |-> 0, result |-> 0, log |-> <<>> ]

\* The loop condition of both for loops: tries < max_tries.
LoopContinuesOffByOne(t) == t <= max_tries
LoopContinues(t) == t < max_tries

\* Line 125: if (ret != 1) return 0x00;
WriteFailedNoReturn(r) == FALSE
WriteFailed(r) == r # 1

\* Lines 127-130: the message of the read phase.
ReadMsg == [addr |-> BATTERY_I2C_ADDRESS, len |-> 1, flags |-> I2C_M_RD,
            buf |-> "value"]

\* return v: the locals die; the caller has the value, the observer its log.
rbr_return(L, v) ==
    [IdleLocals EXCEPT !.pc = "done", !.reg = L.reg, !.result = v,
                       !.log = L.log]

\* What leaves the first loop (lines 125-130) with ret as given.
rbr_after_write(L) ==
    IF WriteFailed(L.ret)
    THEN rbr_return(L, 0)
    ELSE [L EXCEPT !.pc = "read", !.msg = ReadMsg, !.tries = 0]

\* What leaves the second loop (lines 140-142).
rbr_after_read(L) ==
    IF L.ret # 1
    THEN rbr_return(L, 0)
    ELSE rbr_return(L, L.value)

\* One pass of a loop body: i2c_transfer returned xret and, for a read that
\* succeeded, stored byte b through msg.buf.  Then break, or tries++ and the
\* loop condition.
rbr_step(L, xret, b) ==
    LET rd == L.pc = "read"
        L1 == [L EXCEPT !.ret = xret,
                        !.value = IF rd /\ xret = 1 THEN b ELSE @,
                        !.log = Append(@, [rd |-> rd, ok |-> xret = 1,
                                           data |-> IF rd /\ xret = 1
                                                    THEN b ELSE 0])]
        L2 == IF xret = 1 THEN L1 ELSE [L1 EXCEPT !.tries = @ + 1]
        out == xret = 1 \/ ~LoopContinues(L2.tries)
    IN  IF ~out THEN L2
        ELSE IF rd THEN rbr_after_read(L2) ELSE rbr_after_write(L2)

\* What the bus sees of a transfer: who issued it, the direction, the length,
\* the bytes written (none for a read), the register the call is about, success.
Wire(c, L, xret) ==
    [ who |-> c, rd |-> L.msg.flags = I2C_M_RD, len |-> L.msg.len,
      bytes |-> IF L.msg.buf = "bufo" THEN SubSeq(L.bufo, 1, L.msg.len)
                ELSE <<>>,
      reg |-> L.reg, ok |-> xret = 1 ]

Observe(w) ==
    IF Len(bus) < BusWindow THEN Append(bus, w) ELSE Append(Tail(bus), w)

\* A host context enters read_byte_register(r).  A serial host does so only
\* when no other context is inside the driver.
Call(c, r) ==
    /\ loc[c].pc \in {"idle", "done"}
    /\ hostSerial => \A d \in Callers \ {c} : loc[d].pc \in {"idle", "done"}
    /\ loc' = [loc EXCEPT ![c] = rbr_enter(r)]
    /\ UNCHANGED <<hostSerial, bus>>
    /\ UNCHANGED qryVars

\* Line 117: one transfer of the write phase and the rest of the loop body.
WriteTransfer(c, xret) ==
    /\ loc[c].pc = "write"
    /\ loc' = [loc EXCEPT ![c] = rbr_step(loc[c], xret, 0)]
    /\ bus' = Observe(Wire(c, loc[c], xret))
    /\ UNCHANGED hostSerial
    /\ UNCHANGED qryVars

\* Line 132: one transfer of the read phase and the rest of the loop body.
ReadTransfer(c, xret, b) ==
    /\ loc[c].pc = "read"
    /\ loc' = [loc EXCEPT ![c] = rbr_step(loc[c], xret, b)]
    /\ bus' = Observe(Wire(c, loc[c], xret))
    /\ UNCHANGED hostSerial
    /\ UNCHANGED qryVars

---------------------------------------------------------------------------
(* 64-bit unsigned arithmetic in four 16-bit limbs, least significant      *)
(* first, for the unsigned long long expressions of lines 220 and 234.     *)

Limb == 2 ^ 16

\* (unsigned long long) n for an int or unsigned int n: a negative int is
\* sign-extended, 2^64 + n.  \div and % round down, so the limbs above a
\* negative n come out as 65535.
U64FromInt(n) ==
    LET n1 == n \div Limb
        n2 == n1 \div Limb
        n3 == n2 \div Limb
    IN  <<n % Limb, n1 % Limb, n2 % Limb, n3 % Limb>>

\* x * m modulo 2^64, for 0 <= m <= 32767.
U64MulSmall(x, m) ==
    LET p1 == x[1] * m
        p2 == x[2] * m + (p1 \div Limb)
        p3 == x[3] * m + (p2 \div Limb)
        p4 == x[4] * m + (p3 \div Limb)
    IN  <<p1 % Limb, p2 % Limb, p3 % Limb, p4 % Limb>>

\* Long division of one limb, a bit at a time from bit j down: r is the
\* remainder so far (r < d), q the limb of the quotient so far.  2r + bit is
\* compared with d without forming it, since it may pass 2^31.
RECURSIVE U64DivLimb(_, _, _, _, _)
U64DivLimb(limb, d, j, r, q) ==
    IF j < 0 THEN [r |-> r, q |-> q]
    ELSE LET bit == (limb \div (2 ^ j)) % 2
         IN  IF r >= d - r - bit
             THEN U64DivLimb(limb, d, j - 1, r - (d - r - bit), q + 2 ^ j)
             ELSE U64DivLimb(limb, d, j - 1, 2 * r + bit, q)

\* x / d for an unsigned int d with 0 < d < 2^31.
U64DivU32(x, d) ==
    LET a4 == U64DivLimb(x[4], d, 15, 0, 0)
        a3 == U64DivLimb(x[3], d, 15, a4.r, 0)
        a2 == U64DivLimb(x[2], d, 15, a3.r, 0)
        a1 == U64DivLimb(x[1], d, 15, a2.r, 0)
    IN  <<a1.q, a2.q, a3.q, a4.q>>

\* (unsigned int) x: the low 32 bits, as two limbs.
U32OfU64(x) == <<x[1], x[2]>>

\* (unsigned int) n for 0 <= n < 2^31, as two limbs.
U32OfInt(n) == <<n % Limb, n \div Limb>>

\* (int) u for an unsigned int u in two limbs: two's complement.
S32OfU32(u) ==
    IF u[2] >= 32768 THEN (u[2] - Limb) * Limb + u[1] ELSE u[2] * Limb + u[1]

---------------------------------------------------------------------------
(* The derivations, each as a whole call.  A call takes the number k of    *)
(* bus transfers the query has made so far and returns its value v with    *)
(* the number after it.                                                    *)

\* i2c_transfer number k of the query: 1, or -EIO when the schedule fails it.
XferOutcome(k) == IF faults[(k % Len(faults)) + 1] THEN 1 ELSE -EIO

\* read_byte_register(r) run to its return: the loop bodies of rbr_step, fed
\* the bus schedule; a read that succeeds receives the byte of register r.
RECURSIVE rbr_run(_, _)
rbr_run(L, k) ==
    IF L.pc = "done" THEN [v |-> L.result, k |-> k]
    ELSE rbr_run(rbr_step(L, XferOutcome(k), dev[L.reg]), k + 1)

read_byte_register(r, k) == rbr_run(rbr_enter(r), k)

\* (read_byte_register(reg + 1) << 8) | read_byte_register(reg).  C leaves the
\* order of the two calls to the compiler: hiFirst says which it chose.  The
\* argument reg + 1 is converted to u8.
read_word_register(r, k) ==
    IF hiFirst
    THEN LET hi == read_byte_register((r + 1) % 256, k)
             lo == read_byte_register(r, hi.k)
         IN  [v |-> hi.v * 256 + lo.v, k |-> lo.k]
    ELSE LET lo == read_byte_register(r, k)
             hi == read_byte_register((r + 1) % 256, lo.k)
         IN  [v |-> hi.v * 256 + lo.v, k |-> hi.k]

\* At most 65535 * 10.
battery_energy(k) ==
    LET w == read_word_register(BATTERY_REGISTER_ENERGY, k)
    IN  [v |-> w.v * 10, k |-> w.k]

battery_energy_full == 37500

battery_voltage(k) == read_word_register(BATTERY_REGISTER_VOLTAGE, k)

\* if (rate > 0x7FFF) rate = 0x10000 - rate;
SignCorrectInclusive(raw) == IF raw >= 32767 THEN 65536 - raw ELSE raw
SignCorrect(raw) == IF raw > 32767 THEN 65536 - raw ELSE raw

\* rate * battery_voltage(): at most 0x8000 * 0xFFFF = 2147450880, below 2^31,
\* so the unsigned product never wraps.
battery_rate(k) ==
    LET raw == read_word_register(BATTERY_REGISTER_RATE, k)
        rate == SignCorrect(raw.v)
        volt == battery_voltage(raw.k)
    IN  [v |-> rate * volt.v, k |-> volt.k]

\* The branches of battery_status on the STATUS byte.
StatusOfBit1First(status) ==
    IF (status \div 2) % 2 = 1 THEN POWER_SUPPLY_STATUS_CHARGING
    ELSE IF status % 2 = 1 THEN POWER_SUPPLY_STATUS_DISCHARGING
    ELSE IF status % 4 = 0 THEN POWER_SUPPLY_STATUS_FULL
    ELSE POWER_SUPPLY_STATUS_UNKNOWN
StatusOf(status) ==
    IF status % 2 = 1 THEN POWER_SUPPLY_STATUS_DISCHARGING
    ELSE IF (status \div 2) % 2 = 1 THEN POWER_SUPPLY_STATUS_CHARGING
    ELSE IF status % 4 = 0 THEN POWER_SUPPLY_STATUS_FULL
    ELSE POWER_SUPPLY_STATUS_UNKNOWN

battery_status(k) ==
    LET status == read_byte_register(BATTERY_REGISTER_STATUS, k)
    IN  [v |-> StatusOf(status.v), k |-> status.k]

\* 100 * battery_energy() is at most 65535000.
battery_capacity(k) ==
    LET last_full == battery_energy_full
    IN  IF last_full = 0 THEN [v |-> 0, k |-> k]
        ELSE LET e == battery_energy(k)
             IN  [v |-> (100 * e.v) \div battery_energy_full, k |-> e.k]

\* The thresholds of battery_capaity_level on the capacity.
LevelOfStrictLow(capacity) ==
    IF capacity = 100 THEN POWER_SUPPLY_CAPACITY_LEVEL_FULL
    ELSE IF capacity <= 5 THEN POWER_SUPPLY_CAPACITY_LEVEL_CRITICAL
    ELSE IF capacity < 15 THEN POWER_SUPPLY_CAPACITY_LEVEL_LOW
    ELSE POWER_SUPPLY_CAPACITY_LEVEL_NORMAL
LevelOf(capacity) ==
    IF capacity = 100 THEN POWER_SUPPLY_CAPACITY_LEVEL_FULL
    ELSE IF capacity <= 5 THEN POWER_SUPPLY_CAPACITY_LEVEL_CRITICAL
    ELSE IF capacity <= 15 THEN POWER_SUPPLY_CAPACITY_LEVEL_LOW
    ELSE POWER_SUPPLY_CAPACITY_LEVEL_NORMAL

battery_capaity_level(k) ==
    LET capacity == battery_capacity(k)
    IN  [v |-> LevelOf(capacity.v), k |-> capacity.k]

\* battery_energy() * 60ULL * 60ULL * 1000ULL / rate, returned as unsigned int.
battery_time_to_empty(k) ==
    LET rate == battery_rate(k)
    IN  IF rate.v = 0 THEN [v |-> U32OfInt(0), k |-> rate.k]
        ELSE LET e == battery_energy(rate.k)
                 p == U64MulSmall(U64MulSmall(U64MulSmall(
                          U64FromInt(e.v), 60), 60), 1000)
             IN  [v |-> U32OfU64(U64DivU32(p, rate.v)), k |-> e.k]

\* unlikely(x) is __builtin_expect(!!(x), 0): the value of !!(x).
unlikely(x) == IF x # 0 THEN 1 ELSE 0

\* int energy_missing = battery_energy_full() - battery_energy(): the unsigned
\* difference modulo 2^32 read as an int, which is the signed difference, both
\* operands being below 2^31.
\* if (unlikely(energy_missing) < 0) energy_missing = 0;
\* In energy_missing * 60ULL the int is converted to unsigned long long.
battery_time_to_full(k) ==
    LET rate == battery_rate(k)
    IN  IF rate.v = 0 THEN [v |-> U32OfInt(0), k |-> rate.k]
        ELSE LET e == battery_energy(rate.k)
                 diff == battery_energy_full - e.v
                 energy_missing == IF unlikely(diff) < 0 THEN 0 ELSE diff
                 p == U64MulSmall(U64MulSmall(U64MulSmall(
                          U64FromInt(energy_missing), 60), 60), 1000)
             IN  [v |-> U32OfU64(U64DivU32(p, rate.v)), k |-> e.k]

battery_current(k) ==
    LET voltage == battery_voltage(k)
    IN  IF voltage.v = 0 THEN [v |-> 0, k |-> voltage.k]
        ELSE LET rate == battery_rate(voltage.k)
             IN  [v |-> rate.v \div voltage.v, k |-> rate.k]

\* The cases of the switch that store val->intval, with the value stored.
\* Every unsigned int but the two times is below 2^31 and converts to the
\* same int; the times convert modulo 2^32.
IntCases ==
    {"CAPACITY", "STATUS", "TIME_TO_EMPTY_NOW", "TIME_TO_FULL_NOW",
     "VOLTAGE_NOW", "CURRENT_NOW", "ENERGY_FULL", "ENERGY_NOW",
     "CAPACITY_LEVEL", "PRESENT", "TECHNOLOGY"}

StrCases == {"MANUFACTURER", "MODEL_NAME"}

IntStored(p) ==
    CASE p = "CAPACITY" -> battery_capacity(0).v
      [] p = "STATUS" -> battery_status(0).v
      [] p = "TIME_TO_EMPTY_NOW" -> S32OfU32(battery_time_to_empty(0).v)
      [] p = "TIME_TO_FULL_NOW" -> S32OfU32(battery_time_to_full(0).v)
      [] p = "VOLTAGE_NOW" -> battery_voltage(0).v
      [] p = "CURRENT_NOW" -> battery_current(0).v
      [] p = "ENERGY_FULL" -> battery_energy_full * 1000
      [] p = "ENERGY_NOW" -> battery_energy(0).v * 1000
      [] p = "CAPACITY_LEVEL" -> battery_capaity_level(0).v
      [] p = "PRESENT" -> 1
      [] p = "TECHNOLOGY" -> POWER_SUPPLY_TECHNOLOGY_LION

StrStored(p) ==
    CASE p = "MANUFACTURER" -> "Acer"
      [] p = "MODEL_NAME" -> "Acer Switch 11 Battery by jfrimmel"

\* battery_get_property(supply, property, val).  The default case returns
\* -EINVAL and leaves *val alone.
battery_get_property ==
    /\ qpc = "ready"
    /\ qpc' = "returned"
    /\ called' = "get_property"
    /\ IF property \in IntCases
       THEN /\ intval' = IntStored(property)
            /\ valKind' = "int"
            /\ retval' = 0
            /\ UNCHANGED strval
       ELSE IF property \in StrCases
       THEN /\ strval' = StrStored(property)
            /\ valKind' = "str"
            /\ retval' = 0
            /\ UNCHANGED intval
       ELSE /\ retval' = -EINVAL
            /\ UNCHANGED <<valKind, intval, strval>>
    /\ UNCHANGED <<property, dev, faults, hiFirst, rateval>>
    /\ UNCHANGED busVars

\* battery_rate() called on its own.
CallBatteryRate ==
    /\ qpc = "ready"
    /\ qpc' = "returned"
    /\ called' = "battery_rate"
    /\ rateval' = battery_rate(0).v
    /\ UNCHANGED <<property, dev, faults, hiFirst, retval, valKind, intval,
                   strval>>
    /\ UNCHANGED busVars

QueryIdle ==
    /\ qpc = "ready"
    /\ called = "none"
    /\ property = "STATUS"
    /\ dev = [r \in Registers |-> 0]
    /\ faults = <<TRUE>>
    /\ hiFirst = TRUE
    /\ retval = 0
    /\ valKind = "none"
    /\ intval = 0
    /\ strval = ""
    /\ rateval = 0

Init ==
    /\ hostSerial \in BOOLEAN
    /\ loc = [c \in Callers |-> IdleLocals]
    /\ bus = <<>>
    /\ QueryIdle

Next ==
    \/ \E c \in Callers, r \in BusRegisters : Call(c, r)
    \/ \E c \in Callers, x \in XferResults : WriteTransfer(c, x)
    \/ \E c \in Callers, x \in XferResults, b \in WireBytes :
          ReadTransfer(c, x, b)

Spec == Init /\ [][Next]_vars

---------------------------------------------------------------------------
(* The query specifications: the inputs are drawn in the initial state.    *)

\* The device's registers holding the given raw words and STATUS byte.
Device(energy, rate, voltage, status) ==
    [r \in Registers |->
        CASE r = BATTERY_REGISTER_STATUS -> status
          [] r = BATTERY_REGISTER_ENERGY -> energy % 256
          [] r = BATTERY_REGISTER_ENERGY + 1 -> energy \div 256
          [] r = BATTERY_REGISTER_RATE -> rate % 256
          [] r = BATTERY_REGISTER_RATE + 1 -> rate \div 256
          [] r = BATTERY_REGISTER_VOLTAGE -> voltage % 256
          [] r = BATTERY_REGISTER_VOLTAGE + 1 -> voltage \div 256]

\* The raw words of the device.
Word(r) == dev[r + 1] * 256 + dev[r]
EnergyWord == Word(BATTERY_REGISTER_ENERGY)
RateWord == Word(BATTERY_REGISTER_RATE)
VoltageWord == Word(BATTERY_REGISTER_VOLTAGE)
StatusByte == dev[BATTERY_REGISTER_STATUS]

BusQuiet ==
    /\ hostSerial = TRUE
    /\ loc = [c \in Callers |-> IdleLocals]
    /\ bus = <<>>

NotYetCalled ==
    /\ qpc = "ready"
    /\ called = "none"
    /\ retval = 0
    /\ valKind = "none"
    /\ intval = 0
    /\ strval = ""
    /\ rateval = 0

\* Identifiers of enum power_supply_property: the thirteen of the switch and
\* two it has no case for.
SampleProperties == IntCases \cup StrCases \cup {"CHARGE_NOW", "TEMP"}

\* ENERGY words: 0, the scenario's 0x64, 5/6 and 15/16 percent, 99/100/101
\* percent, the first word above energy_full, the largest.
SampleEnergy == {0, 100, 206, 225, 581, 600, 3749, 3750, 3751, 3788, 65535}

\* RATE words: 0, 1, a charge, the two boundaries of the sign correction, the
\* scenario's -100, -1.
SampleRate == {0, 1, 1000, 32767, 32768, 65436, 65535}

\* VOLTAGE words: 0, 1, the scenario's 7400 mV, the largest.
SampleVoltage == {0, 1, 7400, 65535}

SampleStatus == {0, 3}

\* Bus schedules with failures: dead, every second transfer failing, each
\* transfer succeeding on its fifth attempt, one byte read lost in three.
SampleFaults ==
    { <<FALSE>>, <<FALSE, TRUE>>,
      <<FALSE, FALSE, FALSE, FALSE, TRUE>>,
      <<FALSE, FALSE, FALSE, FALSE, FALSE, TRUE, TRUE, TRUE, TRUE>> }

\* The register contents tried under a failing bus.
FaultyBusDevices ==
    { Device(e, r, v, 3) : e \in {100, 3751}, r \in {1, 65436},
                           v \in {257, 7400} }

\* Either a healthy bus under every sampled register content, or a failing
\* bus, in both orders of a word's two reads, under a few.
InitQuery ==
    /\ BusQuiet
    /\ NotYetCalled
    /\ property \in SampleProperties
    /\ \/ /\ faults = <<TRUE>>
          /\ hiFirst = TRUE
          /\ \E e \in SampleEnergy, r \in SampleRate, v \in SampleVoltage,
                s \in SampleStatus : dev = Device(e, r, v, s)
       \/ /\ faults \in SampleFaults
          /\ hiFirst \in BOOLEAN
          /\ dev \in FaultyBusDevices

NextQuery == battery_get_property \/ CallBatteryRate

SpecQuery == InitQuery /\ [][NextQuery]_vars

InitStatus ==
    /\ BusQuiet
    /\ NotYetCalled
    /\ property = "STATUS"
    /\ \E s \in 0..255 : dev = Device(0, 0, 0, s)
    /\ faults = <<TRUE>>
    /\ hiFirst = TRUE

SpecStatus == InitStatus /\ [][battery_get_property]_vars

InitCapacity ==
    /\ BusQuiet
    /\ NotYetCalled
    /\ property \in {"CAPACITY", "CAPACITY_LEVEL", "ENERGY_NOW"}
    /\ \E e \in 0..65535 : dev = Device(e, 0, 0, 0)
    /\ faults = <<TRUE>>
    /\ hiFirst = TRUE

SpecCapacity == InitCapacity /\ [][battery_get_property]_vars

---------------------------------------------------------------------------
(* The claims.                                                             *)

Advertised == {battery_properties[i] : i \in 1..Len(battery_properties)}

\* The advertised metrics computed from register reads.
MeasuredMetrics ==
    {"CAPACITY", "TIME_TO_EMPTY_NOW", "TIME_TO_FULL_NOW", "VOLTAGE_NOW",
     "CURRENT_NOW", "ENERGY_NOW"}

GotProperty == qpc = "returned" /\ called = "get_property"
BusHealthy == faults = <<TRUE>>
BusDead == faults = <<FALSE>>

\* The magnitude of a raw RATE word, as the claims give it.
Magnitude(r) == IF r <= 32767 THEN r ELSE 65536 - r

\* n * 3,600,000 in limbs, for 0 <= n < 2^31: below 2^64, so exact.
TimesMsPerHour(n) ==
    U64MulSmall(U64MulSmall(U64MulSmall(U64FromInt(n), 60), 60), 1000)

\* The int i is the exact value x held in limbs.
ExactlyInt(x, i) == i >= 0 /\ x = U64FromInt(i)

\* C1: when every bus transfer fails, battery_get_property answers every
\* advertised identifier with success, reporting 0 for every measured metric
\* and "unknown" for the status.
C1_DeadBusReportsZeroAndUnknown ==
    (GotProperty /\ BusDead /\ property \in Advertised) =>
        /\ retval = 0
        /\ property \in MeasuredMetrics => intval = 0
        /\ property = "STATUS" => intval = POWER_SUPPLY_STATUS_UNKNOWN

\* C2: battery_get_property returns 0 with a value stored for exactly the
\* advertised identifiers, and -EINVAL with nothing stored for every other.
C2_AnsweredSetIsAdvertisedSet ==
    GotProperty =>
        IF property \in Advertised
        THEN retval = 0 /\ valKind # "none"
        ELSE retval = -EINVAL /\ valKind = "none"

\* The transfers of context c's call so far, by phase.
WritePhase(c) == SelectSeq(loc[c].log, LAMBDA e : ~e.rd)
ReadPhase(c) == SelectSeq(loc[c].log, LAMBDA e : e.rd)
OnlyLastMaySucceed(s) == \A i \in 1..(Len(s) - 1) : ~s[i].ok
Exhausted(s) == Len(s) = 5 /\ ~s[5].ok

\* C3: a read_byte_register call issues at most 5 write-phase transfers and
\* stops them at the first success, issues read-phase transfers only after a
\* write-phase success, at most 5 and stopping at the first success, never
\* runs out of loop budget while inside a loop (so it returns within 10
\* transfers), and returns 0x00 when a phase failed 5 times and otherwise the
\* byte the successful read-phase transfer received.
C3_BoundedRetriesAndResult ==
    \A c \in Callers :
        LET L == loc[c]
            W == WritePhase(c)
            R == ReadPhase(c)
        IN  /\ L.log = W \o R
            /\ Len(W) <= 5 /\ Len(R) <= 5
            /\ OnlyLastMaySucceed(W) /\ OnlyLastMaySucceed(R)
            /\ R # <<>> => W # <<>> /\ W[Len(W)].ok
            /\ L.pc = "write" => L.tries = Len(W) /\ L.tries < 5 /\ R = <<>>
                                 /\ \A i \in 1..Len(W) : ~W[i].ok
            /\ L.pc = "read" => L.tries = Len(R) /\ L.tries < 5
                                /\ W # <<>> /\ W[Len(W)].ok
                                /\ \A i \in 1..Len(R) : ~R[i].ok
            /\ L.pc = "done" =>
                  IF Exhausted(W) THEN L.result = 0 /\ R = <<>>
                  ELSE IF Exhausted(R) THEN L.result = 0
                  ELSE /\ R # <<>>
                       /\ R[Len(R)].ok
                       /\ L.result = R[Len(R)].data

\* C3's case: both phases succeed on their fifth attempt and the byte
\* received is returned.
C3_Witness ==
    \E c \in Callers :
        /\ loc[c].pc = "done"
        /\ Len(WritePhase(c)) = 5 /\ WritePhase(c)[5].ok
        /\ Len(ReadPhase(c)) = 5 /\ ReadPhase(c)[5].ok
        /\ loc[c].result = 100

\* C4: battery_time_to_full clamps a negative shortfall to 0: with energy_now
\* above energy_full and a non-zero rate the time reported is 0; with
\* energy_now at most energy_full it is (energy_full - energy_now) x 3,600,000
\* / rate whenever that fits an int.
C4_TimeToFullClampsShortfall ==
    (GotProperty /\ BusHealthy /\ property = "TIME_TO_FULL_NOW") =>
        LET energy_now == EnergyWord * 10
            rate == Magnitude(RateWord) * VoltageWord
            exact == U64DivU32(TimesMsPerHour(37500 - energy_now), rate)
        IN  /\ (rate # 0 /\ energy_now > 37500) => intval = 0
            /\ (rate # 0 /\ energy_now <= 37500
                  /\ exact[3] = 0 /\ exact[4] = 0 /\ exact[2] < 32768)
               => ExactlyInt(exact, intval)

\* C5: with the device's RATE word r and VOLTAGE word v unchanged during the
\* query, battery_rate returns m x v, m being r for r <= 0x7FFF and
\* 0x10000 - r above, and battery_current returns m for v # 0 and 0 for v = 0.
C5_RateMagnitudeAndCurrent ==
    (qpc = "returned" /\ BusHealthy) =>
        LET m == Magnitude(RateWord)
            v == VoltageWord
        IN  /\ called = "battery_rate" => rateval = m * v
            /\ (called = "get_property" /\ property = "CURRENT_NOW") =>
                  intval = (IF v # 0 THEN m ELSE 0)

\* C5's case: r = 0xFF9C and v = 7400 give the current 100.
C5_Witness ==
    /\ GotProperty /\ BusHealthy /\ property = "CURRENT_NOW"
    /\ RateWord = 65436 /\ VoltageWord = 7400
    /\ intval = 100

\* C6: for every ENERGY word the capacity is floor(100 x (word x 10) / 37500)
\* and the level is FULL at exactly 100, else CRITICAL up to 5, else LOW up to
\* 15, else NORMAL; ENERGY_NOW is word x 10 mWh, reported in uWh.
C6_CapacityAndLevel ==
    GotProperty =>
        LET cap == (100 * (EnergyWord * 10)) \div 37500
        IN  /\ property = "CAPACITY" => intval = cap
            /\ property = "ENERGY_NOW" => intval = EnergyWord * 10 * 1000
            /\ property = "CAPACITY_LEVEL" =>
                  /\ cap = 100 => intval = POWER_SUPPLY_CAPACITY_LEVEL_FULL
                  /\ cap \in 0..5 =>
                        intval = POWER_SUPPLY_CAPACITY_LEVEL_CRITICAL
                  /\ cap \in 6..15 => intval = POWER_SUPPLY_CAPACITY_LEVEL_LOW
                  /\ (cap \in 16..99 \/ cap > 100) =>
                        intval = POWER_SUPPLY_CAPACITY_LEVEL_NORMAL

\* C6's case: ENERGY bytes low 0x64, high 0x00 (2 percent) give CRITICAL.
C6_Witness ==
    /\ GotProperty /\ property = "CAPACITY_LEVEL"
    /\ dev[BATTERY_REGISTER_ENERGY] = 100
    /\ dev[BATTERY_REGISTER_ENERGY + 1] = 0
    /\ intval = POWER_SUPPLY_CAPACITY_LEVEL_CRITICAL

\* C7: for every STATUS byte, bit0 set gives DISCHARGING (bit1 set or not),
\* bit0 clear and bit1 set gives CHARGING, both clear gives FULL, and UNKNOWN
\* is given only when none of the three branches matched.
C7_StatusBranchOrder ==
    GotProperty =>
        LET bit0 == StatusByte % 2 = 1
            bit1 == (StatusByte \div 2) % 2 = 1
        IN  /\ bit0 => intval = POWER_SUPPLY_STATUS_DISCHARGING
            /\ (~bit0 /\ bit1) => intval = POWER_SUPPLY_STATUS_CHARGING
            /\ (~bit0 /\ ~bit1) => intval = POWER_SUPPLY_STATUS_FULL
            /\ intval = POWER_SUPPLY_STATUS_UNKNOWN =>
                  (~bit0 /\ ~bit1 /\ StatusByte % 4 # 0)

\* C7's case: both bits set, answered DISCHARGING.
C7_Witness ==
    /\ GotProperty
    /\ StatusByte % 4 = 3
    /\ intval = POWER_SUPPLY_STATUS_DISCHARGING

C9_NoOverflow ==
    (GotProperty /\ BusHealthy) =>
        LET energy_now == EnergyWord * 10
            m == Magnitude(RateWord)
            rate == m * VoltageWord
            missing == IF energy_now > 37500 THEN 0 ELSE 37500 - energy_now
        IN  /\ property = "ENERGY_NOW" => intval = energy_now * 1000
            /\ property = "CAPACITY" => intval = (100 * energy_now) \div 37500
            /\ property = "CURRENT_NOW" =>
                  intval = (IF VoltageWord = 0 THEN 0 ELSE rate \div VoltageWord)
            /\ property = "TIME_TO_EMPTY_NOW" =>
                  IF rate = 0 THEN intval = 0
                  ELSE ExactlyInt(U64DivU32(TimesMsPerHour(energy_now), rate),
                                  intval)
            /\ property = "TIME_TO_FULL_NOW" =>
                  IF rate = 0 THEN intval = 0
                  ELSE ExactlyInt(U64DivU32(TimesMsPerHour(missing), rate),
                                  intval)

\* Transfer i on the bus continues the call of the transfer before it: the
\* same context and register, after its successful register select or its
\* own failed read.
FollowsOwnSelect(i) ==
    /\ bus[i - 1].who = bus[i].who
    /\ bus[i - 1].reg = bus[i].reg
    /\ \/ ~bus[i - 1].rd /\ bus[i - 1].ok
       \/ bus[i - 1].rd /\ ~bus[i - 1].ok

\* C10: when the host issues one query at a time, every read-phase transfer
\* directly continues its own call (its successful register select, then only
\* its own failed reads); the driver itself does nothing to keep it so, and
\* with concurrent queries a read may directly follow another call's select.
C10_SerialHostReadsFollowOwnSelect ==
    hostSerial =>
        /\ (bus # <<>> /\ Len(bus) < BusWindow) => ~bus[1].rd
        /\ \A i \in 2..Len(bus) : bus[i].rd => FollowsOwnSelect(i)

\* C10's case: under concurrent queries a read-phase transfer directly
\* follows the successful register select of the other context for a
\* different register.
C10_Witness ==
    /\ ~hostSerial
    /\ \E i \in 2..Len(bus) :
          /\ bus[i].rd
          /\ ~bus[i - 1].rd /\ bus[i - 1].ok
          /\ bus[i - 1].who # bus[i].who
          /\ bus[i - 1].reg # bus[i].reg

=============================================================================
